---- MODULE Spec2Model ----
(***************************************************************************)
(* A model of fxread: the Record data model (src/src/record.rs), its       *)
(* offset-based mutation operations, the FASTQ / FASTA readers            *)
(* (src/src/fastq.rs, src/src/fasta.rs) and the reader made from the       *)
(* standard input (src/src/utils.rs).                                      *)
(*                                                                         *)
(* Bytes are their ASCII codes.  Rust indices are 0-based and ranges       *)
(* half-open; Slice, Drain and Splice translate them to TLA+ sequences and *)
(* reproduce the panics of the Rust standard library.                      *)
(***************************************************************************)
EXTENDS Integers, Sequences, FiniteSets, TLC

VARIABLES
    rec,      \* the Record the caller holds
    prev,     \* the Record as it was before the last call
    op,       \* the last call: [name, n, b, res]
    prevname, \* the name of the call before the last one, if it is a tracked one
    out,      \* the value the last call returned (a byte vector), if any
    parts,    \* the (id, seq, qual) handed to the part-based constructor
    built,    \* what the part-based constructor returned: <<>> or <<Record>>
    stream,   \* the bytes the reader has not consumed yet
    input,    \* the records the input text was written from
    yielded,  \* the records the reader has returned so far, in order
    status,   \* the outcome of the last pull on the reader
    opened    \* what initialize_stdin_reader was given and what it returned

vars == <<rec, prev, op, prevname, out, parts, built, stream, input, yielded, status, opened>>

----------------------------------------------------------------------------
(* Bounds of the model *)

MaxSeqLen == 2
MaxInsLen == 1
MaxIdLen == 1
MaxPartLen == 2
MaxRecords == 2
MaxLines == 5

----------------------------------------------------------------------------
(* Bytes *)

LF == 10
PLUS == 43
DIGIT1 == 49
DIGIT2 == 50
DIGIT3 == 51
DIGIT4 == 52
GT == 62
AT == 64
chA == 65
chB == 66
chT == 84
chU == 85
chN == 78
chC == 67
chG == 71
cha == 97
chc == 99
chg == 103
chn == 110
chs == 115
cht == 116
chu == 117
SPACE == 32
DEFAULT_QUAL == 70

Some(x) == <<x>>
None == <<>>
IsSome(o) == Len(o) = 1
IsNone(o) == Len(o) = 0
Unwrap(o) == o[1]

\* the outcome of a call that panicked, and the value of a slice that panicked
Panic == "Panic"
PanicBytes == <<-1>>
Ok == "Ok"

\* all sequences over S of length at most n
RECURSIVE SeqsUpTo(_, _)
SeqsUpTo(S, n) ==
    IF n = 0 THEN {<<>>}
    ELSE LET shorter == SeqsUpTo(S, n - 1)
         IN  shorter \cup {Append(s, x) : s \in {t \in shorter : Len(t) = n - 1}, x \in S}

\* one bit of a ^ b, for w a power of two
XorBit(a, b, w) == IF ((a \div w) % 2) # ((b \div w) % 2) THEN w ELSE 0
\* u8 a ^ b
BitXor(a, b) ==
    XorBit(a, b, 1) + XorBit(a, b, 2) + XorBit(a, b, 4) + XorBit(a, b, 8)
    + XorBit(a, b, 16) + XorBit(a, b, 32) + XorBit(a, b, 64) + XorBit(a, b, 128)
AndBit(a, b, w) == IF ((a \div w) % 2) = 1 /\ ((b \div w) % 2) = 1 THEN w ELSE 0
\* u8 a & b
BitAnd(a, b) ==
    AndBit(a, b, 1) + AndBit(a, b, 2) + AndBit(a, b, 4) + AndBit(a, b, 8)
    + AndBit(a, b, 16) + AndBit(a, b, 32) + AndBit(a, b, 64) + AndBit(a, b, 128)

Reverse(s) == [i \in 1..Len(s) |-> s[Len(s) + 1 - i]]
MapSeq(F(_), s) == [i \in 1..Len(s) |-> F(s[i])]

StartsWith(s, c) == Len(s) > 0 /\ s[1] = c
\* ends_with that looks at every position of the slice
EndsWithAnywhere(s, c) == \E i \in 1..Len(s) : s[i] = c
EndsWith(s, c) == Len(s) > 0 /\ s[Len(s)] = c

\* &data[from..to]: the bytes at 0-based indices from .. to-1, or a panic
Slice(data, from, to) ==
    IF from > to \/ to > Len(data) THEN PanicBytes ELSE SubSeq(data, from + 1, to)
\* data.drain(from..to)
Drain(data, from, to) ==
    IF from > to \/ to > Len(data) THEN PanicBytes
    ELSE SubSeq(data, 1, from) \o SubSeq(data, to + 1, Len(data))
\* data.splice(at..at, ins)
Splice(data, at, ins) ==
    IF at > Len(data) THEN PanicBytes
    ELSE SubSeq(data, 1, at) \o ins \o SubSeq(data, at + 1, Len(data))
\* data with the bytes at 0-based indices from .. to-1 replaced by new
Overwrite(data, from, new) ==
    [i \in 1..Len(data) |->
        IF i > from /\ i <= from + Len(new) THEN new[i - from] ELSE data[i]]

----------------------------------------------------------------------------
(* Record *)

new == [data |-> <<>>, id |-> 0, seq |-> 0, plus |-> None, qual |-> None]

new_fasta(data, pid, pseq) ==
    [data |-> data, id |-> pid, seq |-> pseq, plus |-> None, qual |-> None]

new_fastq(data, pid, pseq, pplus, pqual) ==
    [data |-> data, id |-> pid, seq |-> pseq, plus |-> Some(pplus), qual |-> Some(pqual)]

\* Result<Record>: the message of the bail!, or the record
Err(msg) == [res |-> msg, val |-> None]
OkVal(x) == [res |-> Ok, val |-> Some(x)]

ErrIdGt == "ID cannot start with '>'"
ErrIdAt == "ID cannot start with '@'"
ErrIdNewline == "ID cannot end with newline"
ErrSeqNewline == "Sequence cannot end with newline"
ErrQualNewline == "Quality cannot end with newline"
ErrSeqQualLen == "Sequence and Quality must be the same length"
ErrTrim == "Cannot trim more than the sequence length"
ErrInsertSeq == "Cannot insert at a position greater than the sequence length"
ErrInsertQual == "Cannot insert at a position greater than the quality length"

\* the failures the specification calls MalformedInput and OutOfRange
MalformedInput == {ErrIdGt, ErrIdAt, ErrIdNewline, ErrSeqNewline, ErrQualNewline, ErrSeqQualLen}
OutOfRange == {ErrTrim, ErrInsertSeq, ErrInsertQual}

\* new_fasta_from_parts with the terminator left out of the sequence count
new_fasta_from_parts_short_seq(pid, pseq) ==
    IF StartsWith(pid, GT) THEN Err(ErrIdGt)
    ELSE IF EndsWith(pid, LF) THEN Err(ErrIdNewline)
    ELSE IF EndsWith(pseq, LF) THEN Err(ErrSeqNewline)
    ELSE OkVal([data |-> <<GT>> \o pid \o <<LF>> \o pseq \o <<LF>>,
                id |-> Len(pid) + 1,
                seq |-> Len(pseq),
                plus |-> None,
                qual |-> None])

new_fasta_from_parts(pid, pseq) ==
    IF StartsWith(pid, GT) THEN Err(ErrIdGt)
    ELSE IF EndsWith(pid, LF) THEN Err(ErrIdNewline)
    ELSE IF EndsWith(pseq, LF) THEN Err(ErrSeqNewline)
    ELSE OkVal([data |-> <<GT>> \o pid \o <<LF>> \o pseq \o <<LF>>,
                id |-> Len(pid) + 1,
                seq |-> Len(pseq) + 1,
                plus |-> None,
                qual |-> None])

\* new_fastq_from_parts without the check of the quality's last byte
new_fastq_from_parts_qual_unchecked(pid, pseq, pqual) ==
    IF StartsWith(pid, AT) THEN Err(ErrIdAt)
    ELSE IF Len(pseq) # Len(pqual) THEN Err(ErrSeqQualLen)
    ELSE IF EndsWith(pid, LF) THEN Err(ErrIdNewline)
    ELSE IF EndsWith(pseq, LF) THEN Err(ErrSeqNewline)
    ELSE OkVal([data |-> <<AT>> \o pid \o <<LF>> \o pseq \o <<LF, PLUS, LF>> \o pqual \o <<LF>>,
                id |-> Len(pid) + 1,
                seq |-> Len(pseq) + 1,
                plus |-> Some(2),
                qual |-> Some(Len(pqual) + 1)])

new_fastq_from_parts(pid, pseq, pqual) ==
    IF StartsWith(pid, AT) THEN Err(ErrIdAt)
    ELSE IF Len(pseq) # Len(pqual) THEN Err(ErrSeqQualLen)
    ELSE IF EndsWith(pid, LF) THEN Err(ErrIdNewline)
    ELSE IF EndsWith(pseq, LF) THEN Err(ErrSeqNewline)
    ELSE IF EndsWith(pqual, LF) THEN Err(ErrQualNewline)
    ELSE OkVal([data |-> <<AT>> \o pid \o <<LF>> \o pseq \o <<LF, PLUS, LF>> \o pqual \o <<LF>>,
                id |-> Len(pid) + 1,
                seq |-> Len(pseq) + 1,
                plus |-> Some(2),
                qual |-> Some(Len(pqual) + 1)])

is_fasta(r) == IsNone(r.plus) /\ IsNone(r.qual)
is_fastq(r) == IsSome(r.plus) /\ IsSome(r.qual)
empty(r) == (r.id = 0) \/ (r.seq = 0)

\* ranges as <<start, end>>, 0-based and half-open
id_range(r) == <<1, r.id>>
seq_range(r) == <<1 + r.id, r.id + r.seq>>
plus_range(r) ==
    IF IsSome(r.plus)
    THEN Some(<<1 + r.id + r.seq, r.id + r.seq + Unwrap(r.plus)>>)
    ELSE None
qual_range(r) ==
    IF IsNone(r.plus) THEN None
    ELSE IF IsSome(r.qual)
    THEN Some(<<1 + r.id + r.seq + Unwrap(r.plus),
                r.id + r.seq + Unwrap(r.plus) + Unwrap(r.qual)>>)
    ELSE None

id(r) == Slice(r.data, id_range(r)[1], id_range(r)[2])
seq(r) == Slice(r.data, seq_range(r)[1], seq_range(r)[2])
\* plus() and qual(): None or Some(bytes); Some(PanicBytes) when the slice panics
plus(r) ==
    IF IsSome(plus_range(r))
    THEN Some(Slice(r.data, Unwrap(plus_range(r))[1], Unwrap(plus_range(r))[2]))
    ELSE None
qual(r) ==
    IF IsSome(qual_range(r))
    THEN Some(Slice(r.data, Unwrap(qual_range(r))[1], Unwrap(qual_range(r))[2]))
    ELSE None

\* as_str(): the buffer as text; from_utf8 accepts every ASCII buffer
as_str(r) == IF \A i \in 1..Len(r.data) : r.data[i] < 128 THEN r.data ELSE PanicBytes

Nucleotides == {chA, cha, chC, chc, chG, chg, chT, cht, chN, chn, chU, chu}
valid_sequence(r) ==
    LET s == seq(r)
    IN  IF s = PanicBytes THEN Panic
        ELSE IF \A i \in 1..Len(s) : s[i] \in Nucleotides THEN "true" ELSE "false"
\* valid(): "true", "false", or Panic when seq() panics
\* (valid_unguarded: valid() without the test for an empty record)
valid_unguarded(r) == valid_sequence(r)
valid(r) == IF empty(r) THEN "false" ELSE valid_sequence(r)

----------------------------------------------------------------------------
(* Record: case, complement, fix *)

UpperByteToggle(c) == BitXor(c, SPACE)
UpperByte(c) == IF BitAnd(c, SPACE) = 0 THEN c ELSE BitXor(c, SPACE)
CompByteWrongMask(c) == IF BitAnd(c, 2) = 0 THEN BitXor(c, 21) ELSE BitXor(c, 6)
CompByte(c) == IF BitAnd(c, 2) = 0 THEN BitXor(c, 21) ELSE BitXor(c, 4)
FixKeep == {chA, cha, chC, chc, chG, chg, chT, cht, chN, chn}
FixByteKeepsValid(c) == IF c \in Nucleotides THEN c ELSE chN
FixByte(c) == IF c \in FixKeep THEN c ELSE chN

\* the pure calls return [res, val]; the mutating calls return [res, rec], rec
\* being the record as the call (or its panic) left it
Panicked(r) == [res |-> Panic, rec |-> r]
Failed(msg, r) == [res |-> msg, rec |-> r]
Done(r) == [res |-> Ok, rec |-> r]

seq_upper(r) ==
    LET s == seq(r)
    IN  IF s = PanicBytes THEN [res |-> Panic, val |-> None]
        ELSE OkVal(MapSeq(UpperByte, s))

seq_rev_comp(r) ==
    LET s == seq(r)
    IN  IF s = PanicBytes THEN [res |-> Panic, val |-> None]
        ELSE OkVal(MapSeq(CompByte, Reverse(s)))

\* seq_mut() with every byte replaced by F of it
MapSeqMut(F(_), r) ==
    LET s == seq(r)
    IN  IF s = PanicBytes THEN Panicked(r)
        ELSE Done([r EXCEPT !.data = Overwrite(r.data, seq_range(r)[1], MapSeq(F, s))])

fix(r) == MapSeqMut(FixByte, r)

\* upper() that folds every byte of the buffer
upper_whole_buffer(r) ==
    IF seq(r) = PanicBytes THEN Panicked(r)
    ELSE Done([r EXCEPT !.data = MapSeq(UpperByte, r.data)])

upper(r) == MapSeqMut(UpperByte, r)

\* rev_comp that leaves the quality in its old order
rev_comp_qual_kept(r) ==
    LET s == seq(r)
    IN  IF s = PanicBytes THEN Panicked(r)
        ELSE Done([r EXCEPT !.data =
                      Overwrite(r.data, seq_range(r)[1], MapSeq(CompByte, Reverse(s)))])

rev_comp(r) ==
    LET s == seq(r)
    IN  IF s = PanicBytes THEN Panicked(r)
        ELSE LET r1 == [r EXCEPT !.data =
                            Overwrite(r.data, seq_range(r)[1], MapSeq(CompByte, Reverse(s)))]
                 q == qual(r1)
             IN  IF IsNone(q) THEN Done(r1)
                 ELSE IF Unwrap(q) = PanicBytes THEN Panicked(r1)
                 ELSE Done([r1 EXCEPT !.data =
                               Overwrite(r1.data, Unwrap(qual_range(r1))[1], Reverse(Unwrap(q)))])

----------------------------------------------------------------------------
(* Record: insert and trim *)

\* insert_qual with the run of default qualities put at the start of the quality
insert_qual_at_start(r, insert_size, pos) ==
    IF IsSome(r.qual)
    THEN IF pos > Unwrap(r.qual) THEN Failed(ErrInsertQual, r)
         ELSE IF IsNone(qual_range(r)) THEN Panicked(r)
         ELSE LET insert_pos == Unwrap(qual_range(r))[1]
                  d == Splice(r.data, insert_pos, [i \in 1..insert_size |-> DEFAULT_QUAL])
              IN  IF d = PanicBytes THEN Panicked(r)
                  ELSE Done([r EXCEPT !.data = d, !.qual = Some(Unwrap(r.qual) + insert_size)])
    ELSE Done(r)

insert_qual(r, insert_size, pos) ==
    IF IsSome(r.qual)
    THEN IF pos > Unwrap(r.qual) THEN Failed(ErrInsertQual, r)
         ELSE IF IsNone(qual_range(r)) THEN Panicked(r)
         ELSE LET insert_pos == Unwrap(qual_range(r))[1] + pos
                  d == Splice(r.data, insert_pos, [i \in 1..insert_size |-> DEFAULT_QUAL])
              IN  IF d = PanicBytes THEN Panicked(r)
                  ELSE Done([r EXCEPT !.data = d, !.qual = Some(Unwrap(r.qual) + insert_size)])
    ELSE Done(r)

insert_seq(r, b, pos) ==
    IF pos >= r.seq THEN Failed(ErrInsertSeq, r)
    ELSE LET insert_pos == seq_range(r)[1] + pos
             d == Splice(r.data, insert_pos, b)
         IN  IF d = PanicBytes THEN Panicked(r)
             ELSE insert_qual([r EXCEPT !.data = d, !.seq = r.seq + Len(b)], Len(b), pos)

insert_seq_left_at_one(r, b) == insert_seq(r, b, 1)
insert_seq_left(r, b) == insert_seq(r, b, 0)

\* self.seq - 1 overflows when seq = 0: a panic in a build with overflow checks,
\* usize::MAX (and so the bail! of insert_seq) in a build without
insert_seq_right(r, b) ==
    IF r.seq = 0 THEN {Panicked(r), Failed(ErrInsertSeq, r)}
    ELSE {insert_seq(r, b, r.seq - 1)}

SaturatingSub(a, b) == IF a > b THEN a - b ELSE 0

trim_left(r, size) ==
    IF size > r.seq THEN Failed(ErrTrim, r)
    ELSE LET seq_start == seq_range(r)[1]
             d1 == Drain(r.data, seq_start, seq_start + size)
         IN  IF d1 = PanicBytes THEN Panicked(r)
             ELSE LET r1 == [r EXCEPT !.data = d1, !.seq = SaturatingSub(r.seq, size)]
                  IN  IF is_fastq(r1)
                      THEN LET qual_start == Unwrap(qual_range(r1))[1]
                               d2 == Drain(r1.data, qual_start, qual_start + size)
                           IN  IF d2 = PanicBytes THEN Panicked(r1)
                               ELSE Done([r1 EXCEPT !.data = d2,
                                             !.qual = Some(SaturatingSub(Unwrap(r1.qual), size))])
                      ELSE Done(r1)

\* seq_end - size and qual_end - size are usize subtractions: below zero they
\* panic, or wrap to an index past the buffer, where drain() panics
trim_right(r, size) ==
    IF size > r.seq THEN Failed(ErrTrim, r)
    ELSE LET seq_end == seq_range(r)[2]
             d1 == IF seq_end < size THEN PanicBytes
                   ELSE Drain(r.data, seq_end - size, seq_end)
         IN  IF d1 = PanicBytes THEN Panicked(r)
             ELSE LET r1 == [r EXCEPT !.data = d1, !.seq = SaturatingSub(r.seq, size)]
                  IN  IF is_fastq(r1)
                      THEN LET qual_end == Unwrap(qual_range(r1))[2]
                               d2 == IF qual_end < size THEN PanicBytes
                                     ELSE Drain(r1.data, qual_end - size, qual_end)
                           IN  IF d2 = PanicBytes THEN Panicked(r1)
                               ELSE Done([r1 EXCEPT !.data = d2,
                                             !.qual = Some(SaturatingSub(Unwrap(r1.qual), size))])
                      ELSE Done(r1)

----------------------------------------------------------------------------
(* The caller of the mutation operations: a Record built from parts, then   *)
(* any sequence of calls.  A panic ends the run.                            *)

NoCall == [name |-> "none", n |-> 0, b |-> <<>>, res |-> Ok]
\* the arguments of a part-based constructor: <<kind, id, seq, qual>>
NoParts == <<"none", <<>>, <<>>, <<>>>>
PKind(p) == p[1]
PId(p) == p[2]
PSeq(p) == p[3]
PQual(p) == p[4]

\* the parts the mutated records are built from
MutIds == {<<>>, <<chs>>}
MutSeqBytes == {chA, chc, chU}
MutQual(n) == SubSeq(<<DIGIT1, DIGIT2, DIGIT3, DIGIT4>>, 1, n)
InsBytes == {chT}
\* the inserted strings are not empty; the sizes and positions reach the longest
\* counted sequence length (the sequence and its terminator)
InsStrings == SeqsUpTo(InsBytes, MaxInsLen) \ {<<>>}
Sizes == 0..(MaxSeqLen + 1)

MutParts ==
    {<<k, i, s, IF k = "fastq" THEN MutQual(Len(s)) ELSE <<>> >> :
        k \in {"fasta", "fastq"}, i \in MutIds, s \in SeqsUpTo(MutSeqBytes, MaxSeqLen)}

\* the calls whose name is remembered for one more call
Tracked == {"rev_comp", "insert_seq_left"}

FromParts(p) ==
    IF PKind(p) = "fasta" THEN new_fasta_from_parts(PId(p), PSeq(p))
    ELSE new_fastq_from_parts(PId(p), PSeq(p), PQual(p))

\* no reader has been made from the standard input
NotOpened == [text |-> <<>>, res |-> "none"]

ReaderIdle ==
    /\ stream = <<>>
    /\ input = <<>>
    /\ yielded = <<>>
    /\ status = "idle"
    /\ opened = NotOpened

Init ==
    /\ \E p \in MutParts :
          /\ FromParts(p).res = Ok
          /\ rec = Unwrap(FromParts(p).val)
    /\ prev = rec
    /\ op = NoCall
    /\ prevname = "none"
    /\ out = None
    /\ parts = NoParts
    /\ built = None
    /\ ReaderIdle

\* the call `name` with arguments n, b had outcome o ([res, rec]) and returned v
Call(name, n, b, o, v) ==
    /\ rec' = o.rec
    /\ prev' = rec
    /\ op' = [name |-> name, n |-> n, b |-> b, res |-> o.res]
    /\ prevname' = IF op.name \in Tracked THEN op.name ELSE "other"
    /\ out' = v
    /\ UNCHANGED <<parts, built, stream, input, yielded, status, opened>>

\* the model's cap on the growth of the sequence
Fits(b) == rec.seq + Len(b) <= MaxSeqLen + 1

\* no call follows a panic
Running == op.res # Panic

TrimLeft ==
    /\ Running
    /\ \E n \in Sizes : Call("trim_left", n, <<>>, trim_left(rec, n), None)
TrimRight ==
    /\ Running
    /\ \E n \in Sizes : Call("trim_right", n, <<>>, trim_right(rec, n), None)
InsertSeq ==
    /\ Running
    /\ \E b \in InsStrings, pos \in Sizes :
          Fits(b) /\ Call("insert_seq", pos, b, insert_seq(rec, b, pos), None)
InsertSeqLeft ==
    /\ Running
    /\ \E b \in InsStrings :
          Fits(b) /\ Call("insert_seq_left", 0, b, insert_seq_left(rec, b), None)
InsertSeqRight ==
    /\ Running
    /\ \E b \in InsStrings :
          Fits(b) /\ \E o \in insert_seq_right(rec, b) : Call("insert_seq_right", 0, b, o, None)
Upper ==
    /\ Running
    /\ Call("upper", 0, <<>>, upper(rec), None)
Fix ==
    /\ Running
    /\ Call("fix", 0, <<>>, fix(rec), None)
RevComp ==
    /\ Running
    /\ Call("rev_comp", 0, <<>>, rev_comp(rec), None)
SeqUpper ==
    /\ Running
    /\ Call("seq_upper", 0, <<>>, [res |-> seq_upper(rec).res, rec |-> rec], seq_upper(rec).val)
SeqRevComp ==
    /\ Running
    /\ Call("seq_rev_comp", 0, <<>>, [res |-> seq_rev_comp(rec).res, rec |-> rec],
            seq_rev_comp(rec).val)

Next ==
    \/ TrimLeft
    \/ TrimRight
    \/ InsertSeq
    \/ InsertSeqLeft
    \/ InsertSeqRight
    \/ Upper
    \/ Fix
    \/ RevComp
    \/ SeqUpper
    \/ SeqRevComp

Spec == Init /\ [][Next]_vars

----------------------------------------------------------------------------
(* The caller of the part-based constructors *)

PartIdBytes == {chs, GT, AT, LF}
PartSeqBytes == {chA, LF}
PartQualBytes == {DIGIT1, LF}

InitParts ==
    /\ rec = new
    /\ prev = new
    /\ op = NoCall
    /\ prevname = "none"
    /\ out = None
    /\ parts = NoParts
    /\ built = None
    /\ ReaderIdle

Construct(name, p, o) ==
    /\ parts' = p
    /\ built' = o.val
    /\ op' = [name |-> name, n |-> 0, b |-> <<>>, res |-> o.res]
    /\ UNCHANGED <<rec, prev, prevname, out, stream, input, yielded, status, opened>>

NewFastaFromParts ==
    /\ op.res # Panic
    /\ \E i \in SeqsUpTo(PartIdBytes, MaxIdLen), s \in SeqsUpTo(PartSeqBytes, MaxPartLen) :
          Construct("new_fasta_from_parts", <<"fasta", i, s, <<>> >>,
                    new_fasta_from_parts(i, s))

NewFastqFromParts ==
    /\ op.res # Panic
    /\ \E i \in SeqsUpTo(PartIdBytes, MaxIdLen),
          s \in SeqsUpTo(PartSeqBytes, MaxPartLen),
          q \in SeqsUpTo(PartQualBytes, MaxPartLen) :
          Construct("new_fastq_from_parts", <<"fastq", i, s, q>>,
                    new_fastq_from_parts(i, s, q))

NextParts == NewFastaFromParts \/ NewFastqFromParts

SpecParts == InitParts /\ [][NextParts]_vars

----------------------------------------------------------------------------
(* The byte source: BufRead over an in-memory text *)

\* the 1-based index of the first c in s, or 0
FirstIndex(s, c) ==
    IF \E i \in 1..Len(s) : s[i] = c
    THEN CHOOSE i \in 1..Len(s) : s[i] = c /\ \A j \in 1..(i - 1) : s[j] # c
    ELSE 0

\* a position of the source at which its read fails
IOERR == -2
ErrIo == "read failure of the byte source"

\* read_until(c): the bytes up to and including the first c, or all that is
\* left; a read that reaches a failing position first consumes the bytes before
\* it and returns the error (the source is taken as one value t before it is
\* looked at)
\* (ReadUntilOrMarker: read_until that stops at a record marker as well)
ReadUntilOrMarker(s, c) ==
    LET k == FirstIndex(s, c)
        a == FirstIndex(s, AT)
        stop == IF k = 0 THEN a ELSE IF a = 0 \/ k < a THEN k ELSE a
    IN  IF stop = 0 THEN [read |-> s, rest |-> <<>>, err |-> FALSE]
        ELSE [read |-> SubSeq(s, 1, stop), rest |-> SubSeq(s, stop + 1, Len(s)),
              err |-> FALSE]

ReadUntil(s, c) ==
    CHOOSE r \in
        {LET k == FirstIndex(t, c)
             e == FirstIndex(t, IOERR)
         IN  IF e # 0 /\ (k = 0 \/ e < k)
             THEN [read |-> SubSeq(t, 1, e - 1), rest |-> SubSeq(t, e, Len(t)), err |-> TRUE]
             ELSE IF k = 0 THEN [read |-> t, rest |-> <<>>, err |-> FALSE]
             ELSE [read |-> SubSeq(t, 1, k), rest |-> SubSeq(t, k + 1, Len(t)), err |-> FALSE]
            : t \in {s}} : TRUE

RECURSIVE Concat(_)
Concat(ss) == IF ss = <<>> THEN <<>> ELSE Head(ss) \o Concat(Tail(ss))

----------------------------------------------------------------------------
(* FastqBytes / FastqReader (fastq.rs) *)

ErrMisplaced == "Misplaced Fastq Marker Sequence '@'"

\* the outcome of a pull: "Record" with the record, "None", or the error; and
\* the bytes left in the source
Pulled(r, rest) == [res |-> "Record", val |-> Some(r), rest |-> rest]
Exhausted(rest) == [res |-> "None", val |-> None, rest |-> rest]
PullFailed(msg, rest) == [res |-> msg, val |-> None, rest |-> rest]

FastqBytes_next(s) ==
    LET m == ReadUntil(s, AT)
        l1 == ReadUntil(m.rest, LF)
        l2 == ReadUntil(l1.rest, LF)
        l3 == ReadUntil(l2.rest, LF)
        l4 == ReadUntil(l3.rest, LF)
    IN  IF m.err THEN PullFailed(ErrIo, m.rest)
        ELSE IF Len(m.read) = 0 THEN Exhausted(m.rest)
        ELSE IF Len(m.read) # 1 THEN PullFailed(ErrMisplaced, m.rest)
        ELSE IF l1.err THEN PullFailed(ErrIo, l1.rest)
        ELSE IF Len(l1.read) = 0 THEN Exhausted(l1.rest)
        ELSE IF l2.err THEN PullFailed(ErrIo, l2.rest)
        ELSE IF Len(l2.read) = 0 THEN Exhausted(l2.rest)
        ELSE IF l3.err THEN PullFailed(ErrIo, l3.rest)
        ELSE IF Len(l3.read) = 0 THEN Exhausted(l3.rest)
        ELSE IF l4.err THEN PullFailed(ErrIo, l4.rest)
        ELSE IF Len(l4.read) = 0 THEN Exhausted(l4.rest)
        ELSE Pulled(new_fastq(l1.read \o l2.read \o l3.read \o l4.read,
                              Len(l1.read), Len(l2.read), Len(l3.read), Len(l4.read)),
                    l4.rest)

\* FastqReader::next_buffer and next_record hand on what FastqBytes::next gave
fastq_next_record(s) == FastqBytes_next(s)

\* Iterator::next of FastqReader: an error of next_record is a panic
fastq_next(s) ==
    LET o == fastq_next_record(s)
    IN  IF o.res \in {"Record", "None"} THEN o ELSE PullFailed(Panic, o.rest)

----------------------------------------------------------------------------
(* FastaReader (fasta.rs).  Its Record holds the id and the sequence as     *)
(* strings: <<id, seq>>.                                                    *)

ErrHeader == "Header does not begin with '>'"
ErrUnexpected == "Unexpected Character"

HT == 9
VT == 11
FF == 12
CR == 13
Whitespace == {HT, LF, VT, FF, CR, SPACE}

RECURSIVE TrimStartMatches(_, _)
TrimStartMatches(t, c) ==
    IF StartsWith(t, c) THEN TrimStartMatches(Tail(t), c) ELSE t

RECURSIVE TrimEnd(_)
TrimEnd(t) ==
    IF Len(t) > 0 /\ t[Len(t)] \in Whitespace THEN TrimEnd(SubSeq(t, 1, Len(t) - 1)) ELSE t

\* Record::new, set_id, set_seq, empty, id and seq of the string-backed Record
StrRecordNew == <<<<>>, <<>>>>
set_id(r, v) == <<v, r[2]>>
set_seq(r, v) == <<r[1], v>>
StrEmpty(r) == r[1] = <<>> \/ r[2] = <<>>
StrId(r) == r[1]
StrSeq(r) == r[2]

\* (parse_header and parse_sequence take the token as one value t)
parse_header(token) ==
    CHOOSE r \in
        {IF ~StartsWith(t, GT) THEN Err(ErrHeader)
         ELSE OkVal(TrimEnd(TrimStartMatches(t, GT))) : t \in {token}} : TRUE

ParseBase(x) ==
    CASE x \in {chA, cha} -> chA
      [] x \in {chC, chc} -> chC
      [] x \in {chG, chg} -> chG
      [] x \in {chT, cht} -> chT
      [] x \in {chN, chn} -> chN
      [] OTHER -> -1

\* parse_sequence with the bases kept as they were read
parse_sequence_as_read(token) ==
    CHOOSE r \in
        {IF \E i \in 1..Len(t) : ParseBase(t[i]) = -1 THEN Err(ErrUnexpected)
         ELSE OkVal(t) : t \in {TrimEnd(token)}} : TRUE

parse_sequence(token) ==
    CHOOSE r \in
        {IF \E i \in 1..Len(t) : ParseBase(t[i]) = -1 THEN Err(ErrUnexpected)
         ELSE OkVal(MapSeq(ParseBase, t)) : t \in {TrimEnd(token)}} : TRUE

\* the end of next_record: an empty record is "no record"
FastaFinish(r, rest) == IF StrEmpty(r) THEN Exhausted(rest) ELSE Pulled(r, rest)

fasta_next_record(s) ==
    LET l1 == ReadUntil(s, LF)
        h == parse_header(l1.read)
        l2 == ReadUntil(l1.rest, LF)
        q == parse_sequence(l2.read)
    IN  IF l1.err THEN PullFailed(ErrIo, l1.rest)
        ELSE IF Len(l1.read) = 0 THEN FastaFinish(StrRecordNew, l1.rest)
        ELSE IF h.res # Ok THEN PullFailed(h.res, l1.rest)
        ELSE IF l2.err THEN PullFailed(ErrIo, l2.rest)
        ELSE IF Len(l2.read) = 0 THEN FastaFinish(set_id(StrRecordNew, Unwrap(h.val)), l2.rest)
        ELSE IF q.res # Ok THEN PullFailed(q.res, l2.rest)
        ELSE FastaFinish(set_seq(set_id(StrRecordNew, Unwrap(h.val)), Unwrap(q.val)), l2.rest)

\* Iterator::next of FastaReader: an error of next_record is a panic
fasta_next(s) ==
    LET o == fasta_next_record(s)
    IN  IF o.res \in {"Record", "None"} THEN o ELSE PullFailed(Panic, o.rest)

----------------------------------------------------------------------------
(* The caller of a reader: an input text, then any number of pulls.  A      *)
(* panic ends the run.                                                      *)

\* the lines the input records are written from (without their terminators)
FastqIdLines == {<<>>, <<chs>>, <<AT, chs>>}
FastqSeqLines == {<<>>, <<chA, chc>>, <<chB, AT>>}
FastqPlusLines == {<<PLUS>>, <<PLUS, AT>>}
FastqQualLines == {<<>>, <<AT, DIGIT1>>}
FastqRecords ==
    {<<i, s, p, q>> : i \in FastqIdLines, s \in FastqSeqLines,
                      p \in FastqPlusLines, q \in FastqQualLines}

\* (FASTA lines are not empty: what the reader makes of an empty id or sequence
\* is decided by Record::empty of the string-backed Record alone)
FastaIdLines == {<<chs>>, <<GT, chs>>, <<chs, SPACE>>, <<chs, chs>>}
FastaSeqLines == {<<chA>>, <<chc, chA>>, <<chB>>, <<chN, chA>>, <<chg, SPACE>>, <<cht, SPACE, chA>>}
FastaRecords == {<<i, s>> : i \in FastaIdLines, s \in FastaSeqLines}

\* all sequences over S of length at most n, S a set of tuples
Inputs(S) == SeqsUpTo(S, MaxRecords)

\* the text of one record, and of an input
FastqText(r) == <<AT>> \o r[1] \o <<LF>> \o r[2] \o <<LF>> \o r[3] \o <<LF>> \o r[4] \o <<LF>>
FastaText(r) == <<GT>> \o r[1] \o <<LF>> \o r[2] \o <<LF>>
TextOf(T(_), recs) == Concat([i \in 1..Len(recs) |-> T(recs[i])])

ReaderInit(recs, text) ==
    /\ input = recs
    /\ stream = text
    /\ yielded = <<>>
    /\ status = "idle"
    /\ opened = NotOpened
    /\ rec = new
    /\ prev = new
    /\ op = NoCall
    /\ prevname = "none"
    /\ out = None
    /\ parts = NoParts
    /\ built = None

\* the pull `name` had outcome o
Pull(name, o) ==
    /\ stream' = o.rest
    /\ status' = o.res
    /\ yielded' = IF o.res = "Record" THEN Append(yielded, Unwrap(o.val)) ELSE yielded
    /\ op' = [name |-> name, n |-> 0, b |-> <<>>, res |-> Ok]
    /\ UNCHANGED <<input, rec, prev, prevname, out, parts, built, opened>>

InitFastq == \E recs \in Inputs(FastqRecords) : ReaderInit(recs, TextOf(FastqText, recs))
FastqNextRecord ==
    /\ status # Panic
    /\ Pull("next_record", fastq_next_record(stream))
FastqNext ==
    /\ status # Panic
    /\ Pull("next", fastq_next(stream))
NextFastq == FastqNextRecord \/ FastqNext
SpecFastq == InitFastq /\ [][NextFastq]_vars

InitFasta == \E recs \in Inputs(FastaRecords) : ReaderInit(recs, TextOf(FastaText, recs))
FastaNextRecord ==
    /\ status # Panic
    /\ Pull("next_record", fasta_next_record(stream))
FastaNext ==
    /\ status # Panic
    /\ Pull("next", fasta_next(stream))
NextFasta == FastaNextRecord \/ FastaNext
SpecFasta == InitFasta /\ [][NextFasta]_vars

----------------------------------------------------------------------------
(* The readers on any text: lines that may lack a marker, a last line that   *)
(* may lack its terminator, a source whose read may fail.                    *)

\* the lines of a text for the reader with marker M (without their terminators)
TextLines(M) == {<<>>, <<chA>>, <<M>>, <<M, chA>>, <<IOERR>>}

\* the lines written one after the other, each with its terminator, the last
\* one only if terminated
TextFrom(lines, terminated) ==
    LET t == Concat([i \in 1..Len(lines) |-> lines[i] \o <<LF>>])
    IN  IF terminated \/ lines = <<>> THEN t ELSE SubSeq(t, 1, Len(t) - 1)

Texts(M) == {TextFrom(l, t) : l \in SeqsUpTo(TextLines(M), MaxLines), t \in BOOLEAN}

InitFastqText == \E t \in Texts(AT) : ReaderInit(<<>>, t)
SpecFastqText == InitFastqText /\ [][NextFastq]_vars

InitFastaText == \E t \in Texts(GT) : ReaderInit(<<>>, t)
SpecFastaText == InitFastaText /\ [][NextFasta]_vars

----------------------------------------------------------------------------
(* Properties of the Record operations *)

\* the index (1-based) of the last byte counted in a field that ends at `upto`
Terminated(r, upto) == upto + 1 <= Len(r.data) /\ r.data[upto + 1] = LF

\* the range invariant: the counted lengths cover the buffer after the marker,
\* every field has its terminator as last counted byte, the accessors are in bounds
RangeInvariant(r) ==
    /\ r.id >= 1 /\ r.seq >= 1
    /\ Terminated(r, r.id)
    /\ Terminated(r, r.id + r.seq)
    /\ id(r) # PanicBytes /\ Len(id(r)) = r.id - 1
    /\ seq(r) # PanicBytes /\ Len(seq(r)) = r.seq - 1
    /\ IF is_fastq(r)
       THEN /\ Unwrap(r.plus) >= 1 /\ Unwrap(r.qual) >= 1
            /\ Len(r.data) = 1 + r.id + r.seq + Unwrap(r.plus) + Unwrap(r.qual)
            /\ Terminated(r, r.id + r.seq + Unwrap(r.plus))
            /\ Terminated(r, r.id + r.seq + Unwrap(r.plus) + Unwrap(r.qual))
            /\ Unwrap(plus(r)) # PanicBytes /\ Unwrap(qual(r)) # PanicBytes
       ELSE /\ is_fasta(r)
            /\ Len(r.data) = 1 + r.id + r.seq

Trims == {"trim_left", "trim_right"}
Mutators == Trims \cup {"insert_seq", "insert_seq_left", "insert_seq_right", "upper", "fix", "rev_comp"}

\* C1 (as claimed): a Record built from parts satisfies the range invariant, and
\* still does after any sequence of successful mutating calls (a failed call
\* leaves the Record as it was).
C1_RangeInvariantKept == op.res # Panic => RangeInvariant(rec)

\* C2 (as claimed): trim_left(n), trim_right(n) and insert_seq(b, pos) with n or
\* pos at least the counted length of the sequence field fail with OutOfRange,
\* and no call panics or leaves the offsets corrupted.
C2_OversizedRejected ==
    /\ (op.name \in Trims \cup {"insert_seq"} /\ op.n >= prev.seq) => op.res \in OutOfRange
    /\ op.name \in Trims \cup {"insert_seq"} => (op.res # Panic /\ RangeInvariant(rec))

\* the bytes of s without its first n, and without its last n
DropFirst(s, n) == SubSeq(s, n + 1, Len(s))
DropLast(s, n) == SubSeq(s, 1, Len(s) - n)

\* C3 (as claimed): a successful trim_left(k) leaves seq() the old seq() without
\* its first k bytes, trim_right(k) without its last k; qual() loses the same
\* bytes; id() and plus() are unchanged.
C3_TrimDropsExactly ==
    (op.name \in Trims /\ op.res = Ok) =>
        /\ seq(prev) # PanicBytes /\ seq(rec) # PanicBytes
        /\ Len(seq(rec)) = Len(seq(prev)) - op.n
        /\ seq(rec) = IF op.name = "trim_left" THEN DropFirst(seq(prev), op.n)
                      ELSE DropLast(seq(prev), op.n)
        /\ id(rec) = id(prev)
        /\ plus(rec) = plus(prev)
        /\ is_fastq(prev) =>
              /\ Unwrap(qual(rec)) # PanicBytes
              /\ Unwrap(qual(rec)) = IF op.name = "trim_left"
                                     THEN DropFirst(Unwrap(qual(prev)), op.n)
                                     ELSE DropLast(Unwrap(qual(prev)), op.n)

\* C4: on a record whose seq() is defined, insert_seq_left(b) followed by
\* trim_left(len(b)) both succeed and leave seq() as it was before the two calls.
C4_InsertLeftThenTrimLeft ==
    [][(/\ op.name = "insert_seq_left" /\ seq(prev) # PanicBytes
        /\ op'.name = "trim_left" /\ op'.n = Len(op.b))
         => (op.res = Ok /\ op'.res = Ok /\ seq(rec') = seq(prev))]_vars

C4_Witness ==
    /\ prevname = "insert_seq_left"
    /\ op.name = "trim_left" /\ op.res = Ok /\ op.n = 1
    /\ is_fastq(rec) /\ seq(rec) = <<chc>> /\ qual(rec) = Some(<<DIGIT1>>)

\* C5: for a valid record, rev_comp applied twice restores seq() and, for a
\* FASTQ record, qual().
C5_RevCompTwice ==
    [][(valid(prev) = "true" /\ op.name = "rev_comp" /\ op'.name = "rev_comp")
         => /\ op'.res = Ok
            /\ seq(rec') = seq(prev)
            /\ qual(rec') = qual(prev)]_vars

C5_Witness ==
    /\ prevname = "rev_comp"
    /\ op.name = "rev_comp" /\ op.res = Ok
    /\ is_fastq(rec) /\ valid(rec) = "true"
    /\ seq(rec) = <<chc, chU>>

\* C6: for a valid record, the fold of seq_upper applied to the result of
\* seq_upper changes nothing, and seq_upper leaves the record as it was.
C6_SeqUpperIdempotent ==
    (op.name = "seq_upper" /\ valid(prev) = "true") =>
        /\ op.res = Ok
        /\ MapSeq(UpperByte, Unwrap(out)) = Unwrap(out)
        /\ rec = prev

C6_Witness ==
    /\ op.name = "seq_upper" /\ op.res = Ok
    /\ valid(rec) = "true"
    /\ seq(rec) = <<chc, chA>> /\ Unwrap(out) = <<chC, chA>>

\* C7: a Record built from accepted parts renders as '>' id LF seq LF (FASTA) or
\* '@' id LF seq LF '+' LF qual LF (FASTQ), and id(), seq(), plus(), qual()
\* return the given id, the given sequence, "+" and the given quality.
C7_PartsRoundTrip ==
    IsSome(built) =>
        LET r == Unwrap(built)
        IN  /\ id(r) = PId(parts)
            /\ seq(r) = PSeq(parts)
            /\ IF PKind(parts) = "fasta"
               THEN /\ as_str(r) = <<GT>> \o PId(parts) \o <<LF>> \o PSeq(parts) \o <<LF>>
                    /\ plus(r) = None
                    /\ qual(r) = None
               ELSE /\ as_str(r) = <<AT>> \o PId(parts) \o <<LF>> \o PSeq(parts) \o <<LF>>
                                   \o <<PLUS, LF>> \o PQual(parts) \o <<LF>>
                    /\ plus(r) = Some(<<PLUS>>)
                    /\ qual(r) = Some(PQual(parts))

C7_Witness ==
    /\ IsSome(built)
    /\ PKind(parts) = "fastq"
    /\ PId(parts) = <<chs>> /\ PSeq(parts) = <<LF, chA>> /\ PQual(parts) = <<DIGIT1, DIGIT1>>

\* what the constructors are said to reject
Rejected(p) ==
    \/ StartsWith(PId(p), IF PKind(p) = "fasta" THEN GT ELSE AT)
    \/ EndsWith(PId(p), LF)
    \/ EndsWith(PSeq(p), LF)
    \/ PKind(p) = "fastq" /\ EndsWith(PQual(p), LF)
    \/ PKind(p) = "fastq" /\ Len(PSeq(p)) # Len(PQual(p))

\* C8: the part-based constructors fail with MalformedInput, and produce no
\* Record, exactly when the id starts with the marker of the format, or the id,
\* the sequence or the quality ends with a newline, or (FASTQ) sequence and
\* quality differ in length; otherwise they succeed.
C8_PartsRejectedExactly ==
    PKind(parts) # "none" =>
        IF Rejected(parts)
        THEN op.res \in MalformedInput /\ IsNone(built)
        ELSE op.res = Ok /\ IsSome(built)

C8_Witness ==
    /\ PKind(parts) = "fastq"
    /\ PId(parts) = <<chs>> /\ PSeq(parts) = <<chA>> /\ PQual(parts) = <<LF>>
    /\ op.res = ErrQualNewline /\ IsNone(built)

----------------------------------------------------------------------------
(* Properties of the readers *)

\* C9 (as claimed): on a concatenation of k well-formed FASTQ records the FASTQ
\* reader fails on no pull, the i-th record it yields has id(), seq(), plus()
\* and qual() equal to the four lines of the i-th input record, and it reports
\* no-more-records only once all k have been yielded.
C9_FastqYieldsInput ==
    /\ status \in {"idle", "Record", "None"}
    /\ Len(yielded) <= Len(input)
    /\ status = "None" => Len(yielded) = Len(input)
    /\ \A i \in 1..Len(yielded) :
          /\ id(yielded[i]) = input[i][1]
          /\ seq(yielded[i]) = input[i][2]
          /\ plus(yielded[i]) = Some(input[i][3])
          /\ qual(yielded[i]) = Some(input[i][4])

PlainFasta(r) ==
    /\ r[1] # <<>> /\ ~StartsWith(r[1], GT) /\ r[1][Len(r[1])] \notin Whitespace
    /\ r[2] # <<>> /\ \A i \in 1..Len(r[2]) : r[2][i] \in FixKeep

C11_NoAlphabetCheck ==
    /\ status \in {"idle", "Record", "None"}
    /\ \A i \in 1..Len(yielded) :
          (\E j \in 1..Len(input[i][2]) : input[i][2][j] \notin Nucleotides) =>
              /\ ~empty(yielded[i])
              /\ seq(yielded[i]) = input[i][2]
              /\ valid(yielded[i]) = "false"

\* C12: fix() on a non-empty record succeeds, replaces every sequence byte that
\* is not one of A a C c G g T t N n (so also U and u) by 'N', leaves the other
\* sequence bytes as they were, and leaves the record valid.
C12_FixReplacesByN ==
    (op.name = "fix" /\ ~empty(prev)) =>
        /\ op.res = Ok
        /\ seq(prev) # PanicBytes /\ seq(rec) # PanicBytes
        /\ Len(seq(rec)) = Len(seq(prev))
        /\ \A i \in 1..Len(seq(prev)) :
              seq(rec)[i] = IF seq(prev)[i] \in {chA, cha, chC, chc, chG, chg, chT, cht, chN, chn}
                            THEN seq(prev)[i] ELSE chN
        /\ valid(rec) = "true"

C12_Witness ==
    /\ op.name = "fix" /\ op.res = Ok
    /\ is_fastq(prev) /\ seq(prev) = <<chc, chU>>
    /\ seq(rec) = <<chc, chN>> /\ valid(prev) = "true"

\* the complement as claimed: A<->T, C<->G, N<->N, in either case
Complement(c) ==
    CASE c = chA -> chT [] c = chT -> chA [] c = chC -> chG [] c = chG -> chC
      [] c = cha -> cht [] c = cht -> cha [] c = chc -> chg [] c = chg -> chc
      [] OTHER -> c

\* C13 (as claimed): on a sequence over A C G T N in either case, seq_rev_comp()
\* returns the sequence reversed with every base complemented (A<->T, C<->G,
\* N<->N, the case kept), and leaves the record as it was.
C13_SeqRevCompComplements ==
    (/\ op.name = "seq_rev_comp" /\ seq(prev) # PanicBytes
     /\ \A i \in 1..Len(seq(prev)) : seq(prev)[i] \in FixKeep) =>
        /\ op.res = Ok
        /\ Unwrap(out) = MapSeq(Complement, Reverse(seq(prev)))
        /\ rec = prev

Inserts == {"insert_seq", "insert_seq_left", "insert_seq_right"}
\* the position the last insert call inserted at
InsertPos ==
    CASE op.name = "insert_seq" -> op.n
      [] op.name = "insert_seq_right" -> Len(seq(prev))
      [] OTHER -> 0
\* s with b spliced in after its first pos bytes
SplicedAt(s, pos, b) == SubSeq(s, 1, pos) \o b \o SubSeq(s, pos + 1, Len(s))

C15_RevCompInPlace ==
    (op.name = "rev_comp" /\ op.res = Ok) =>
        /\ seq_rev_comp(prev).res = Ok
        /\ seq(rec) = Unwrap(seq_rev_comp(prev).val)
        /\ qual(rec) = IF is_fastq(prev) THEN Some(Reverse(Unwrap(qual(prev)))) ELSE None
        /\ id(rec) = id(prev)
        /\ plus(rec) = plus(prev)
        /\ rec.id = prev.id /\ rec.seq = prev.seq
        /\ rec.plus = prev.plus /\ rec.qual = prev.qual
        /\ Len(rec.data) = Len(prev.data)
        /\ \A i \in 1..Len(prev.data) : (prev.data[i] = LF) <=> (rec.data[i] = LF)

C15_Witness ==
    /\ op.name = "rev_comp" /\ op.res = Ok
    /\ is_fastq(prev) /\ seq(prev) = <<chA, chc>> /\ qual(prev) = Some(<<DIGIT1, DIGIT2>>)
    /\ seq(rec) = <<chg, chT>> /\ qual(rec) = Some(<<DIGIT2, DIGIT1>>)

\* C16 (as claimed): a next_record pull of the FASTQ reader that starts on input
\* that is left but not positioned at a marker '@' fails with the misplaced
\* marker error and yields no record; a pull that starts with nothing left
\* returns no-more-records.
C16_MisplacedMarkerRejected ==
    [][op'.name = "next_record" =>
          /\ (stream # <<>> /\ stream[1] \notin {AT, IOERR}) =>
                (status' = ErrMisplaced /\ yielded' = yielded)
          /\ stream = <<>> => (status' = "None" /\ yielded' = yielded)]_vars

\* the number of line terminators in a text
Terminators(t) == Cardinality({i \in 1..Len(t) : t[i] = LF})
HasFailure(t) == \E i \in 1..Len(t) : t[i] = IOERR

\* a FASTQ record as the scanner builds it (no marker in the buffer) made of
\* four lines, each ending in its terminator
WholeFastq(r) ==
    /\ is_fastq(r)
    /\ r.id >= 1 /\ r.seq >= 1 /\ Unwrap(r.plus) >= 1 /\ Unwrap(r.qual) >= 1
    /\ Len(r.data) = r.id + r.seq + Unwrap(r.plus) + Unwrap(r.qual)
    /\ r.data[r.id] = LF
    /\ r.data[r.id + r.seq] = LF
    /\ r.data[r.id + r.seq + Unwrap(r.plus)] = LF
    /\ r.data[r.id + r.seq + Unwrap(r.plus) + Unwrap(r.qual)] = LF

\* C17 (as claimed, for the FASTQ reader): every record a pull returns is made
\* of four complete lines, each ending in the line terminator; a pull that
\* starts at a marker on input that ends before four lines are complete returns
\* no-more-records and no record.
C17_RecordsWhole ==
    [][op'.name = "next_record" =>
          /\ status' = "Record" => WholeFastq(yielded'[Len(yielded')])
          /\ (/\ stream # <<>> /\ stream[1] = AT /\ ~HasFailure(stream)
              /\ Terminators(stream) < 4) =>
                (status' = "None" /\ yielded' = yielded)]_vars

\* t is what is left of s after some of its first bytes were consumed
IsSuffix(t, s) == Len(t) <= Len(s) /\ t = SubSeq(s, Len(s) - Len(t) + 1, Len(s))

\* C18 (as claimed): once a pull has returned no-more-records every later pull
\* returns no-more-records, and no pull reads again a byte already consumed.
C18_ExhaustionPermanent ==
    [][/\ status = "None" => (status' = "None" /\ yielded' = yielded)
       /\ IsSuffix(stream', stream)]_vars

\* C19 (as claimed, for the FASTQ reader): next_record returns an error when the
\* source fails on the pull's first read and when the pull does not start at a
\* marker, and no-more-records only with the input used up; Iterator::next
\* returns None only when next_record does, and panics when next_record
\* returns an error.
C19_ErrorsDistinct ==
    [][/\ op'.name = "next_record" =>
            /\ (stream # <<>> /\ stream[1] = IOERR) => status' = ErrIo
            /\ (stream # <<>> /\ stream[1] \notin {AT, IOERR}) => status' = ErrMisplaced
            /\ status' = "None" => stream' = <<>>
       /\ op'.name = "next" =>
            /\ status' = "None" => fastq_next_record(stream).res = "None"
            /\ fastq_next_record(stream).res \notin {"Record", "None"} => status' = Panic]_vars

\* C20 (as claimed, for the FASTQ reader): the Record yielded for the i-th
\* well-formed record of the input renders (as_str / Into<String>) as the text
\* of that record, marker and terminators included.
C20_RendersInputText ==
    \A i \in 1..Len(yielded) : as_str(yielded[i]) = FastqText(input[i])


----------------------------------------------------------------------------
(* Terminators inside the parts of a constructor *)

Contains(s, c) == \E i \in 1..Len(s) : s[i] = c
LastIs(s, c) == Len(s) > 0 /\ s[Len(s)] = c
FirstIs(s, c) == Len(s) > 0 /\ s[1] = c
InnerOnly(s, c) == Contains(s, c) /\ ~LastIs(s, c)

PartsOf(p) == IF PKind(p) = "fastq" THEN {PId(p), PSeq(p), PQual(p)}
              ELSE {PId(p), PSeq(p)}

\* C21 (as claimed): the part-based constructors fail whenever the identifier,
\* the sequence or the quality contains a line terminator at any position.
C21_EmbeddedTerminatorRejected ==
    (PKind(parts) # "none" /\ \E x \in PartsOf(parts) : Contains(x, LF))
        => op.res \in MalformedInput /\ IsNone(built)

\* C21 (amended): the part-based constructors fail whenever the identifier, the
\* sequence or the quality has a line terminator as its last byte; a part whose
\* only terminators stand before its last byte is accepted as it is when
\* nothing else is wrong with the parts.
C21_TrailingTerminatorRejected ==
    PKind(parts) # "none" =>
        /\ (\E x \in PartsOf(parts) : LastIs(x, LF))
              => op.res \in MalformedInput /\ IsNone(built)
        /\ ( /\ \A x \in PartsOf(parts) : ~LastIs(x, LF)
             /\ ~FirstIs(PId(parts), IF PKind(parts) = "fasta" THEN GT ELSE AT)
             /\ (PKind(parts) = "fastq" => Len(PSeq(parts)) = Len(PQual(parts))) )
              => /\ op.res = Ok /\ IsSome(built)
                 /\ seq(Unwrap(built)) = PSeq(parts)

C21_Witness ==
    /\ PKind(parts) = "fasta"
    /\ PId(parts) = <<chs>> /\ InnerOnly(PSeq(parts), LF)
    /\ op.res = Ok /\ IsSome(built)


----------------------------------------------------------------------------
(* The mutators on any record a caller can hold, Record::new() included *)

InitFresh ==
    /\ \/ rec = new
       \/ \E p \in MutParts :
             /\ FromParts(p).res = Ok
             /\ rec = Unwrap(FromParts(p).val)
    /\ prev = rec
    /\ op = NoCall
    /\ prevname = "none"
    /\ out = None
    /\ parts = NoParts
    /\ built = None
    /\ ReaderIdle

SpecFresh == InitFresh /\ [][Next]_vars

\* the bytes of the buffer at the 0-based positions from..to-1, where they exist
BytesAt(r, from, to) ==
    {r.data[i + 1] : i \in {j \in from..(to - 1) : j < Len(r.data)}}

\* C22: valid() is true iff the record is not empty (stored id and seq both
\* non-zero) and every byte of the sequence range is one of A, C, G, T, N, U in
\* either case, and it is false otherwise; empty() is true iff id = 0 or
\* seq = 0; Record::new() is empty and not valid.
C22_ValidIffNonEmptyNucleotides ==
    /\ valid(rec) \in {"true", "false"}
    /\ valid(rec) = "true" <=>
          /\ rec.id # 0 /\ rec.seq # 0
          /\ BytesAt(rec, rec.id + 1, rec.id + rec.seq) \subseteq Nucleotides
    /\ empty(rec) <=> (rec.id = 0 \/ rec.seq = 0)
    /\ rec = new => empty(rec) /\ valid(rec) = "false"

C22_Witness ==
    /\ rec = new
    /\ empty(rec)
    /\ valid(rec) = "false"


----------------------------------------------------------------------------
(* The reader made from the standard input (utils.rs) *)

ErrNoData == "No data in stdin"
ErrUnrecognized == "Unrecognized file format"

\* fill_buf(): the bytes the buffer holds after one read of the source, or the
\* failure of that read
FillBuf(s) ==
    LET e == FirstIndex(s, IOERR)
    IN  IF e = 1 THEN [buffer |-> <<>>, err |-> TRUE]
        ELSE IF e = 0 THEN [buffer |-> s, err |-> FALSE]
        ELSE [buffer |-> SubSeq(s, 1, e - 1), err |-> FALSE]

\* initialize_generic_reader: the scanner the flag selects
initialize_generic_reader(fasta) == IF fasta THEN "fasta" ELSE "fastq"

\* initialize_stdin_reader that takes the byte it looks at out of the source
initialize_stdin_reader_consuming(s) ==
    LET f == FillBuf(s)
    IN  IF f.err THEN [res |-> ErrIo, rest |-> s]
        ELSE IF f.buffer = <<>> THEN [res |-> ErrNoData, rest |-> s]
        ELSE IF f.buffer[1] = GT THEN [res |-> initialize_generic_reader(TRUE), rest |-> Tail(s)]
        ELSE IF f.buffer[1] = AT THEN [res |-> initialize_generic_reader(FALSE), rest |-> Tail(s)]
        ELSE [res |-> ErrUnrecognized, rest |-> s]

\* initialize_stdin_reader: the scanner selected, or the error; and the bytes
\* the reader it returns has still to read (the buffer that was filled is the
\* reader's own source)
initialize_stdin_reader(s) ==
    LET f == FillBuf(s)
    IN  IF f.err THEN [res |-> ErrIo, rest |-> s]
        ELSE IF f.buffer = <<>> THEN [res |-> ErrNoData, rest |-> s]
        ELSE IF f.buffer[1] = GT THEN [res |-> initialize_generic_reader(TRUE), rest |-> s]
        ELSE IF f.buffer[1] = AT THEN [res |-> initialize_generic_reader(FALSE), rest |-> s]
        ELSE [res |-> ErrUnrecognized, rest |-> s]

\* next_record that leaves the source where it was
fastx_next_record_rewound(fmt, s) ==
    LET o == IF fmt = "fasta" THEN fasta_next_record(s) ELSE fastq_next_record(s)
    IN  [o EXCEPT !.rest = s]

\* FastxRead::next_record and Iterator::next of the boxed reader
fastx_next_record(fmt, s) ==
    IF fmt = "fasta" THEN fasta_next_record(s) ELSE fastq_next_record(s)
fastx_next(fmt, s) ==
    IF fmt = "fasta" THEN fasta_next(s) ELSE fastq_next(s)

\* the lines of a text on the standard input (without their terminators)
StdinLines == {<<>>, <<chA>>, <<AT, chA>>, <<GT, chA>>}
StdinTexts ==
    {TextFrom(l, t) : l \in SeqsUpTo(StdinLines, MaxLines), t \in BOOLEAN}
        \cup {<<IOERR>>, <<GT, chA, LF, IOERR>>}

InitStdin == \E t \in StdinTexts : ReaderInit(<<>>, t)

InitializeStdinReader ==
    /\ opened = NotOpened
    /\ LET o == initialize_stdin_reader(stream)
       IN  /\ opened' = [text |-> stream, res |-> o.res]
           /\ stream' = o.rest
    /\ op' = [name |-> "initialize_stdin_reader", n |-> 0, b |-> <<>>, res |-> Ok]
    /\ UNCHANGED <<input, yielded, status, rec, prev, prevname, out, parts, built>>

Formats == {"fasta", "fastq"}

StdinNextRecord ==
    /\ opened.res \in Formats
    /\ status # Panic
    /\ \E o \in {fastx_next_record(opened.res, stream)} : Pull("next_record", o)
StdinNext ==
    /\ opened.res \in Formats
    /\ status # Panic
    /\ \E o \in {fastx_next(opened.res, stream)} : Pull("next", o)

NextStdin == InitializeStdinReader \/ StdinNextRecord \/ StdinNext
SpecStdin == InitStdin /\ [][NextStdin]_vars

\* the owner of the reader goes on pulling for as long as it can
SpecStdinLive == SpecStdin /\ WF_vars(NextStdin)


\* what k pulls of the scanner for format fmt yield on the text s, and what
\* they leave of it
RECURSIVE Scan(_, _, _)
Scan(fmt, s, k) ==
    IF k = 0 THEN [yielded |-> <<>>, rest |-> s]
    ELSE LET o == IF fmt = "fasta" THEN fasta_next_record(s) ELSE fastq_next_record(s)
             r == Scan(fmt, o.rest, k - 1)
         IN  [yielded |-> (IF o.res = "Record" THEN <<Unwrap(o.val)>> ELSE <<>>) \o r.yielded,
              rest |-> r.rest]

\* C23: initialize_stdin_reader decides by the first unconsumed byte: '>'
\* selects the FASTA scanner, '@' the FASTQ scanner, any other first byte and
\* an empty input are errors; the peek consumes nothing, so that the records
\* then yielded are those the selected scanner yields on the whole input, the
\* first record included.
C23_StdinSelectsByFirstByte ==
    opened.res # "none" =>
        LET t == opened.text
        IN  /\ opened.res = IF t = <<>> THEN ErrNoData
                            ELSE IF t[1] = GT THEN "fasta"
                            ELSE IF t[1] = AT THEN "fastq"
                            ELSE IF t[1] = IOERR THEN ErrIo
                            ELSE ErrUnrecognized
            /\ opened.res \notin Formats => stream = t /\ yielded = <<>>
            /\ opened.res \in Formats =>
                  \E k \in 0..Len(t) :
                      Scan(IF t[1] = GT THEN "fasta" ELSE "fastq", t, k)
                          = [yielded |-> yielded, rest |-> stream]

C23_Witness ==
    /\ opened.res = "fastq"
    /\ opened.text[1] = AT
    /\ op.name = "next"
    /\ Len(yielded) = 1
    /\ id(yielded[1]) # PanicBytes


----------------------------------------------------------------------------
(* What the FASTA reader accepts *)

\* the first line of a text with its terminator, what follows it, and a line
\* without its terminator
FirstLine(t) ==
    LET k == FirstIndex(t, LF) IN IF k = 0 THEN t ELSE SubSeq(t, 1, k)
AfterFirstLine(t) ==
    LET k == FirstIndex(t, LF) IN IF k = 0 THEN <<>> ELSE SubSeq(t, k + 1, Len(t))
Unterminated(l) == IF LastIs(l, LF) THEN SubSeq(l, 1, Len(l) - 1) ELSE l

RECURSIVE WithoutTrailingSpace(_)
WithoutTrailingSpace(l) ==
    IF Len(l) > 0 /\ l[Len(l)] \in {HT, LF, VT, FF, CR, SPACE}
    THEN WithoutTrailingSpace(SubSeq(l, 1, Len(l) - 1))
    ELSE l

FastaLetters == {chA, chC, chG, chT, chN, cha, chc, chg, cht, chn}
UpperLetter(c) == IF c \in 97..122 THEN c - 32 ELSE c
AllLetters(l) == \A i \in 1..Len(l) : l[i] \in FastaLetters

\* a pull of the FASTA reader on a text that starts with the header line h
\* followed by the sequence line q: it fails when bad, and a record it yields
\* has the letters of q in upper case
FastaPullChecks(h, q, bad) ==
    /\ bad => /\ status' = IF op'.name = "next" THEN Panic
                           ELSE IF FirstIs(h, GT) THEN ErrUnexpected ELSE ErrHeader
              /\ yielded' = yielded
    /\ status' = "Record" =>
          /\ Len(yielded') = Len(yielded) + 1
          /\ StrSeq(yielded'[Len(yielded')]) = [i \in 1..Len(q) |-> UpperLetter(q[i])]

----------------------------------------------------------------------------
(* upper() in place *)

\* the 1-based positions of the buffer that the sequence range covers
SeqPositions(r) == (r.id + 2)..(r.id + r.seq)

\* C25: after upper(), seq() is what seq_upper() returned before the call,
\* while id(), plus(), qual(), every byte outside the sequence range (the
\* terminators among them), the four stored lengths and the length of the
\* buffer are what they were.
C25_UpperInPlace ==
    (op.name = "upper" /\ op.res = Ok) =>
        /\ seq_upper(prev).res = Ok
        /\ seq(rec) = Unwrap(seq_upper(prev).val)
        /\ id(rec) = id(prev) /\ plus(rec) = plus(prev) /\ qual(rec) = qual(prev)
        /\ rec.id = prev.id /\ rec.seq = prev.seq
        /\ rec.plus = prev.plus /\ rec.qual = prev.qual
        /\ Len(rec.data) = Len(prev.data)
        /\ \A i \in 1..Len(prev.data) :
              i \notin SeqPositions(prev) => rec.data[i] = prev.data[i]

C25_Witness ==
    /\ op.name = "upper" /\ op.res = Ok
    /\ is_fastq(rec)
    /\ id(prev) = <<chs>> /\ seq(prev) = <<chc, chA>>
    /\ seq(rec) = <<chC, chA>>


----------------------------------------------------------------------------
(* The end of the records *)

----------------------------------------------------------------------------
(* The mutators on FASTQ records made by Record::new_fastq from a buffer and *)
(* four lengths, as the record tests make them: the quality line may be      *)
(* shorter than the sequence line.                                           *)

RawFastq ==
    {new_fastq(<<AT>> \o i \o <<LF>> \o s \o <<LF, PLUS, LF>> \o MutQual(k) \o <<LF>>,
               Len(i) + 1, Len(s) + 1, 2, k + 1) :
        i \in MutIds, s \in SeqsUpTo(MutSeqBytes, MaxSeqLen), k \in 0..MaxSeqLen}

InitRaw ==
    /\ rec \in {r \in RawFastq : Unwrap(r.qual) <= r.seq}
    /\ prev = rec
    /\ op = NoCall
    /\ prevname = "none"
    /\ out = None
    /\ parts = NoParts
    /\ built = None
    /\ ReaderIdle

SpecRaw == InitRaw /\ [][Next]_vars

----------------------------------------------------------------------------
(* Failed mutations *)

\* C27 (as claimed): whenever trim_left, trim_right, insert_seq,
\* insert_seq_left or insert_seq_right returns an error, the buffer and the
\* four stored lengths of the record are what they were before the call.
C27_FailureLeavesRecord ==
    (op.name \in Trims \cup Inserts /\ op.res \in OutOfRange) => rec = prev


----------------------------------------------------------------------------
(* Sequence and quality of a FASTQ record *)

\* seq() and qual() of r have the same length, and so do the stored counts
Aligned(r) ==
    /\ r.seq = Unwrap(r.qual)
    /\ seq(r) # PanicBytes /\ Unwrap(qual(r)) # PanicBytes
    /\ Len(seq(r)) = Len(Unwrap(qual(r)))

\* C28 (as claimed): every FASTQ record the FASTQ scanner returns, and every
\* FASTQ record built by new_fastq_from_parts, also after any successful trims,
\* inserts, rev_comp, upper and fix, has seq() and qual() of the same length
\* (stored seq = stored qual).
C28_SeqQualAligned ==
    /\ \A i \in 1..Len(yielded) : is_fastq(yielded[i]) => Aligned(yielded[i])
    /\ (is_fastq(rec) /\ op.res = Ok) => Aligned(rec)


----------------------------------------------------------------------------
(* The empty record *)

\* C29 (as claimed): on Record::new() no operation panics: the trims and the
\* inserts return Ok or an error for every argument, upper(), fix(),
\* rev_comp(), seq_upper() and seq_rev_comp() complete, and seq() returns
\* (seq() is what seq_upper() and seq_rev_comp() call first).
C29_EmptyRecordNeverPanics ==
    (prev = new /\ op.name # "none") => op.res # Panic


----------------------------------------------------------------------------
(* Markers inside the lines of a FASTQ record *)

\* the record the scanner makes of the four lines of r: the lines with their
\* terminators, one after the other, and their counted lengths
Framed(r) ==
    [data |-> r[1] \o <<LF>> \o r[2] \o <<LF>> \o r[3] \o <<LF>> \o r[4] \o <<LF>>,
     id |-> Len(r[1]) + 1,
     seq |-> Len(r[2]) + 1,
     plus |-> <<Len(r[3]) + 1>>,
     qual |-> <<Len(r[4]) + 1>>]

\* C30: a FASTQ record is returned as one record with its id, sequence, plus
\* and quality lines whole whatever '@' they hold (also as the first byte of
\* the quality line), and the pull that follows starts at the marker of the
\* next record and returns that record: no pull fails, and no-more-records
\* comes only after the last record.
C30_MarkerOnlyAtPullStart ==
    /\ status \in {"idle", "Record", "None"}
    /\ Len(yielded) <= Len(input)
    /\ status = "None" => Len(yielded) = Len(input)
    /\ \A i \in 1..Len(yielded) : yielded[i] = Framed(input[i])
    /\ Concat([i \in 1..(Len(input) - Len(yielded)) |->
                  FastqText(input[Len(yielded) + i])]) = stream

C30_Witness ==
    /\ Len(input) = 2 /\ Len(yielded) = 2
    /\ input[1] = << <<AT, chs>>, <<chB, AT>>, <<PLUS, AT>>, <<AT, DIGIT1>> >>
    /\ input[2][1] = <<chs>>
    /\ yielded[2] = Framed(input[2])
    /\ op.name = "next_record"

====
